---- MODULE Spec2Model ----
(***************************************************************************)
(* tinynn-autograd: the strided GPU array (core/ndarray.py) and its        *)
(* kernels (core/ops_gpu.py).                                              *)
(*                                                                         *)
(* Python tuples and lists are sequences; Python's 0-based positions are   *)
(* 1-based here (dimension i of the code is position i+1), buffer element  *)
(* e of the code is position e+1 of the buffer's sequence.  Views are      *)
(* objects on a heap (objs), addressed by their position, so that          *)
(* copy.copy and attribute assignment are modelled as the code does them.  *)
(***************************************************************************)
EXTENDS Integers, Sequences, FiniteSets, TLC

VARIABLES objs, bufs, last, nupd, gen, cls,
          cache, compiles, requested, pc, want,
          rin, rx, rname, rpasses, rstatus, rplat

vars == <<objs, bufs, last, nupd, gen, cls, cache, compiles, requested, pc, want,
          rin, rx, rname, rpasses, rstatus, rplat>>
viewVars == <<objs, bufs, last, nupd, gen, cls>>
cacheVars == <<cache, compiles, requested, pc, want>>
reduceVars == <<rin, rx, rname, rpasses, rstatus, rplat>>

(***************************************************************************)
(* Bounds of the model.                                                    *)
(***************************************************************************)
\* buffers allocated by kernel launches (materializations, in-place updates,
\* matmul) in one run
MaxLaunches == 1
\* transforms applied in a row to a constructed array
MaxDepth == 3
\* the largest dimension and element count of an expand target
MaxDim == 3
MaxSize == 6
\* the value of the right operand of an in-place update
Operand == 10

(***************************************************************************)
(* Sequence helpers (utils.math.prod, slicing, zip, sorted).               *)
(***************************************************************************)
RECURSIVE prod(_)
prod(s) == IF s = <<>> THEN 1 ELSE Head(s) * prod(Tail(s))

RECURSIVE SumSeq(_)
SumSeq(s) == IF s = <<>> THEN 0 ELSE Head(s) + SumSeq(Tail(s))

Min(a, b) == IF a < b THEN a ELSE b
Max(a, b) == IF a > b THEN a ELSE b

\* s[i+1:] and s[:i] of the code, i 0-based
From(s, i) == SubSeq(s, i + 1, Len(s))
Upto(s, i) == SubSeq(s, 1, i)

\* the positions of s that satisfy keep, in order
RECURSIVE Filter(_, _, _)
Filter(s, keep, i) ==
    IF i > Len(s) THEN <<>>
    ELSE (IF i \in keep THEN <<s[i]>> ELSE <<>>) \o Filter(s, keep, i + 1)

\* sorted(s) == s  and  sorted(s)[::-1] == s
\* the value of a one-element set: {body : x \in {e}} computes e once and
\* binds x to its value
Only(S) == CHOOSE v \in S : TRUE

IsAscending(s) == \A i \in 1..(Len(s) - 1) : s[i] <= s[i + 1]
IsDescending(s) == \A i \in 1..(Len(s) - 1) : s[i] >= s[i + 1]

\* tuple(prod(shape[i+1:]) for i in range(len(shape)))
CStrides(shape) == [i \in 1..Len(shape) |-> prod(From(shape, i))]
\* tuple(prod(shape[:i]) for i in range(len(shape)))
FStrides(shape) == [i \in 1..Len(shape) |-> prod(Upto(shape, i - 1))]

\* Python compares a list with a tuple as unequal, whatever they hold
ListEqTuple(l, t) == FALSE

(***************************************************************************)
(* Buffers.                                                                *)
(***************************************************************************)
\* the buffer element at 0-based position e; a read outside the buffer is
\* undefined and yields junk
Rd(buf, e, junk) == IF e + 1 \in DOMAIN buf THEN buf[e + 1] ELSE junk

\* np.arange(n)
Arange(n) == [i \in 1..n |-> i - 1]

\* alloc_buffer(shape, dtype, hostbuf): without hostbuf the contents are
\* undefined (junk)
alloc_buffer(shape, hostbuf, junk) ==
    IF hostbuf = <<>> THEN [i \in 1..prod(shape) |-> junk] ELSE hostbuf

(***************************************************************************)
(* GPUArray.                                                               *)
(***************************************************************************)
update_contiguousness(v) ==
    LET keep == {i \in 1..Len(v.shape) : v.shape[i] # 1}
        strides == Filter(v.strides, keep, 1)
    IN [v EXCEPT !.f_contiguous = IsAscending(strides),
                 !.c_contiguous = IsDescending(strides)]

\* GPUArray.__init__ on buffer b
GPUArray(b, shape) ==
    update_contiguousness(
        [buffer |-> b, shape |-> shape, strides |-> CStrides(shape),
         offset |-> 0, c_contiguous |-> TRUE, f_contiguous |-> FALSE])

ndim(v) == Len(v.shape)

\* the result of a method: err is "" when it returned, ret the object returned
Res(err, o, b, ret, allocs) ==
    [err |-> err, objs |-> o, bufs |-> b, ret |-> ret, allocs |-> allocs]

\* a fresh array: GPUArray(shape=..) or GPUArray(data=..)
NewArray(o, b, shape, hostbuf, junk) ==
    Res("", Append(o, GPUArray(Len(b) + 1, shape)),
        Append(b, alloc_buffer(shape, hostbuf, junk)), Len(o) + 1, 1)

\* a mutant of copy.copy: the "copy" is the object itself
copy_alias(o, self) == [objs |-> o, id |-> self]

\* copy.copy(self): a new object with the same attribute values
copy_copy(o, self) == [objs |-> Append(o, o[self]), id |-> Len(o) + 1]

(***************************************************************************)
(* __getitem__.  A key is a sequence of items; an item is an integer index *)
(* or a slice start:stop, either end of which may be None.                 *)
(***************************************************************************)
IntItem(k) == [t |-> "int", k |-> k, sNone |-> TRUE, start |-> 0,
               eNone |-> TRUE, stop |-> 0]
SliceItem(sNone, start, eNone, stop) ==
    [t |-> "slice", k |-> 0, sNone |-> sNone, start |-> start,
     eNone |-> eNone, stop |-> stop]

\* the loop of lines 64-78 from key item i on; shape is the local list,
\* reduce the positions indexed so far
RECURSIVE GetItemLoop(_, _, _, _, _, _)
GetItemLoop(o, inst, key, i, shape, reduce) ==
    IF i > Len(key) THEN [err |-> "", objs |-> o, shape |-> shape, reduce |-> reduce]
    ELSE IF i > Len(o[inst].shape)
    THEN [err |-> "IndexError", objs |-> o, shape |-> shape, reduce |-> reduce]
    ELSE
    LET it == key[i]
        n == o[inst].shape[i]
    IN IF it.t = "int"
       THEN LET k == IF it.k < 0 THEN it.k + n ELSE it.k
            IN IF ~(0 <= k /\ k < n)
               THEN [err |-> "AssertionError", objs |-> o, shape |-> shape,
                     reduce |-> reduce]
               ELSE GetItemLoop(
                        [o EXCEPT ![inst].offset = @ + o[inst].strides[i] * k],
                        inst, key, i + 1, shape, reduce \cup {i})
       ELSE LET start0 == IF it.sNone THEN 0 ELSE it.start
                start == IF start0 < 0 THEN start0 + n ELSE start0
                stop0 == IF it.eNone THEN n ELSE it.stop
                stop == IF stop0 < 0 THEN stop0 + n ELSE stop0
            IN IF ~(0 <= start /\ start < stop /\ stop <= n)
               THEN [err |-> "AssertionError", objs |-> o, shape |-> shape,
                     reduce |-> reduce]
               ELSE GetItemLoop(
                        [o EXCEPT ![inst].offset = @ + o[inst].strides[i] * start,
                                  ![inst].c_contiguous = FALSE,
                                  ![inst].f_contiguous = FALSE],
                        inst, key, i + 1, [shape EXCEPT ![i] = stop - start],
                        reduce)

getitem(o, b, self, key) ==
    LET c == copy_copy(o, self)
        inst == c.id
        l == GetItemLoop(c.objs, inst, key, 1, c.objs[inst].shape, {})
        keep == (1..Len(l.shape)) \ l.reduce
    IN IF l.err # "" THEN Res(l.err, l.objs, b, 0, 0)
       ELSE Res("", [l.objs EXCEPT
                        ![inst].shape = Filter(l.shape, keep, 1),
                        ![inst].strides = Filter(l.objs[inst].strides, keep, 1)],
                b, inst, 0)

(***************************************************************************)
(* contiguous_op (ops_gpu.py).  env holds what the code leaves open:       *)
(*   env.ndims  whether the array class provides the attribute ndims that  *)
(*              contiguous_op reads (GPUArray of ndarray.py defines ndim,  *)
(*              so the read raises AttributeError for it);                 *)
(*   env.cattr  the same for the attribute _c_contiguous matmul_op reads;  *)
(*   env.junk   the value an undefined read yields;                        *)
(*   env.serial whether the work-items of an elementwise kernel run one    *)
(*              after another or all read before any writes.               *)
(***************************************************************************)
\* the coordinates of linear id curr under the contiguous strides of shape:
\* int _i{i}=curr/_s{i}; curr%=_s{i};
RECURSIVE Coords(_, _, _)
Coords(shape, curr, i) ==
    IF i > Len(shape) THEN <<>>
    ELSE LET s == prod(From(shape, i))
         IN <<curr \div s>> \o Coords(shape, curr % s, i + 1)

\* "+".join(b{i}*_i{i}): the address the kernel reads; x.offset is no
\* argument of the kernel
KernelAddr(strides, idx) ==
    SumSeq([i \in 1..Len(idx) |-> strides[i] * idx[i]])

contiguous_op(o, b, x, env) ==
    LET r == NewArray(o, b, o[x].shape, <<>>, env.junk)
        n == ndim(o[x])
        A == b[o[x].buffer]
        B == [g \in 1..prod(o[x].shape) |->
                 Rd(A, KernelAddr(o[x].strides, Coords(o[x].shape, g - 1, 1)),
                    env.junk)]
    IN IF ~env.ndims THEN Res("AttributeError", o, b, 0, 1)
       ELSE IF n = 0 THEN Res("BuildError", o, b, 0, 1)
       ELSE Res("", r.objs, [r.bufs EXCEPT ![Len(b) + 1] = B], r.ret, 1)

(***************************************************************************)
(* reshape, expand, squeeze, permute.                                      *)
(***************************************************************************)
Count(s, x) == Cardinality({i \in DOMAIN s : s[i] = x})
IndexOf(s, x) == CHOOSE i \in DOMAIN s : s[i] = x /\ \A j \in 1..(i - 1) : s[j] # x

\* lines 135-141: the shape with its -1 inferred
InferShape(self, shape) ==
    LET size == prod(self.shape)
        axis == IndexOf(shape, -1)
        infer == prod(Filter(shape, {i \in DOMAIN shape : shape[i] # -1}, 1))
    IN IF Count(shape, -1) > 1 THEN [err |-> "AssertionError", shape |-> shape]
       ELSE IF infer = 0 THEN [err |-> "ZeroDivisionError", shape |-> shape]
       ELSE IF size % infer # 0 THEN [err |-> "AssertionError", shape |-> shape]
       ELSE [err |-> "", shape |-> [shape EXCEPT ![axis] = size \div infer]]

\* lines 144-151: the copy-free path on a view whose flags say contiguous
ReshapeFlat(o, self, shape) ==
    LET c == copy_copy(o, self)
        inst == c.id
        strides == IF o[self].c_contiguous THEN CStrides(shape) ELSE FStrides(shape)
    IN [objs |-> [c.objs EXCEPT ![inst] =
                     update_contiguousness([@ EXCEPT !.shape = shape,
                                                     !.strides = strides])],
        id |-> inst]

reshape(o, b, self, shape0, env) ==
    LET inf == IF Count(shape0, -1) > 0 THEN InferShape(o[self], shape0)
               ELSE [err |-> "", shape |-> shape0]
        shape == inf.shape
    IN IF inf.err # "" THEN Res(inf.err, o, b, 0, 0)
       ELSE IF prod(shape) # prod(o[self].shape) THEN Res("AssertionError", o, b, 0, 0)
       ELSE IF o[self].c_contiguous \/ o[self].f_contiguous
       THEN LET f == ReshapeFlat(o, self, shape) IN Res("", f.objs, b, f.id, 0)
       ELSE LET m == contiguous_op(o, b, self, env)
            IN IF m.err # "" THEN m
               ELSE LET f == ReshapeFlat(m.objs, m.ret, shape)
                    IN Res("", f.objs, m.bufs, f.id, m.allocs)

\* the loop of lines 160-163
RECURSIVE ExpandLoop(_, _, _)
ExpandLoop(v, shape, i) ==
    IF i > Min(Len(v.shape), Len(shape)) THEN [err |-> "", strides |-> <<>>]
    ELSE LET s1 == v.shape[i]
             s2 == shape[i]
             rest == ExpandLoop(v, shape, i + 1)
         IN IF s1 < s2 /\ s1 # 1 THEN [err |-> "AssertionError", strides |-> <<>>]
            ELSE IF rest.err # "" THEN rest
            ELSE [err |-> "",
                  strides |-> <<IF s1 < s2 THEN 0 ELSE v.strides[i]>> \o rest.strides]

expand(o, b, self, shape) ==
    LET c == copy_copy(o, self)
        inst == c.id
        l == ExpandLoop(c.objs[inst], shape, 1)
    IN IF Len(shape) # ndim(c.objs[inst]) THEN Res("AssertionError", c.objs, b, 0, 0)
       ELSE IF l.err # "" THEN Res(l.err, c.objs, b, 0, 0)
       ELSE Res("", [c.objs EXCEPT ![inst].shape = shape,
                                   ![inst].strides = l.strides,
                                   ![inst].c_contiguous = FALSE,
                                   ![inst].f_contiguous = FALSE],
                b, inst, 0)

permute(o, b, self, axes) ==
    LET c == copy_copy(o, self)
        inst == c.id
        v == c.objs[inst]
    IN IF \E i \in DOMAIN axes : axes[i] \notin DOMAIN v.shape
       THEN Res("IndexError", c.objs, b, 0, 0)
       ELSE LET st == [i \in DOMAIN axes |-> v.strides[axes[i]]]
                \* line 192 reads inst.shape after line 191 set inst.strides
                sh == [i \in DOMAIN axes |-> v.shape[axes[i]]]
            IN Res("", [c.objs EXCEPT ![inst] =
                           update_contiguousness([v EXCEPT !.strides = st,
                                                           !.shape = sh])],
                   b, inst, 0)

\* T: permute with the axes reversed
ReversedAxes(n) == [i \in 1..n |-> n + 1 - i]

\* squeeze(axis): axisNone for axis=None, else axis0 is the set of the axes
\* given (1-based, or -1 for the last one)
squeeze(o, b, self, axisNone, axis0, env) ==
    LET v == o[self]
        axis == IF axisNone THEN {i \in DOMAIN v.shape : v.shape[i] = 1}
                ELSE {(IF a = -1 THEN ndim(v) ELSE a) : a \in axis0}
        shape == Filter(v.shape,
                        {i \in DOMAIN v.shape : i \notin axis \/ v.shape[i] # 1}, 1)
    IN IF ListEqTuple(shape, v.shape) THEN Res("", o, b, self, 0)
       ELSE reshape(o, b, self, shape, env)

(***************************************************************************)
(* broadcast and the elementwise kernel.                                   *)
(***************************************************************************)
BRes(err, o, b, x, y, allocs) ==
    [err |-> err, objs |-> o, bufs |-> b, a |-> x, b |-> y, allocs |-> allocs]

\* [1] * n + list(shape)
PadLeft(shape, n) == [i \in 1..n |-> 1] \o shape

\* lines 37-39: the check runs over zip(a.shape, b.shape), the shapes as given
ZipMismatch(sa, sb) ==
    \E i \in 1..Min(Len(sa), Len(sb)) : sa[i] # sb[i] /\ sa[i] # 1 /\ sb[i] # 1

broadcast(o, b, x, y, env) ==
    LET sa == o[x].shape
        sb == o[y].shape
        ndims == Max(Len(sa), Len(sb))
    IN IF sa = sb THEN BRes("", o, b, x, y, 0)
       ELSE IF ZipMismatch(sa, sb) THEN BRes("ValueError", o, b, x, y, 0)
       ELSE Only({
       IF ra.err # "" THEN BRes(ra.err, ra.objs, ra.bufs, x, y, ra.allocs)
       ELSE Only({
       IF rb.err # "" THEN BRes(rb.err, rb.objs, rb.bufs, ra.ret, y,
                                ra.allocs + rb.allocs)
       ELSE Only({
       Only({
       IF ea.err # "" THEN BRes(ea.err, ea.objs, ea.bufs, ra.ret, rb.ret,
                                ra.allocs + rb.allocs)
       ELSE Only({
       BRes(eb.err, eb.objs, eb.bufs, ea.ret,
            IF eb.err = "" THEN eb.ret ELSE rb.ret, ra.allocs + rb.allocs)
       : eb \in {IF ~ListEqTuple(broadcast_shape, ea.objs[rb.ret].shape)
                 THEN expand(ea.objs, ea.bufs, rb.ret, broadcast_shape)
                 ELSE Res("", ea.objs, ea.bufs, rb.ret, 0)}})
       : ea \in {IF ~ListEqTuple(broadcast_shape, rb.objs[ra.ret].shape)
                 THEN expand(rb.objs, rb.bufs, ra.ret, broadcast_shape)
                 ELSE Res("", rb.objs, rb.bufs, ra.ret, 0)}})
       : broadcast_shape \in {[i \in 1..ndims |->
                                 Max(rb.objs[ra.ret].shape[i],
                                     rb.objs[rb.ret].shape[i])]}})
       : rb \in {IF Len(sb) # ndims
                 THEN reshape(ra.objs, ra.bufs, y, PadLeft(sb, ndims - Len(sb)), env)
                 ELSE Res("", ra.objs, ra.bufs, y, 0)}})
       : ra \in {IF Len(sa) # ndims
                 THEN reshape(o, b, x, PadLeft(sa, ndims - Len(sa)), env)
                 ELSE Res("", o, b, x, 0)}})

\* op_mapping of binary_op
OpNames == {"add", "sub", "mul"}
ApplyOp(name, x, y) ==
    CASE name = "add" -> x + y
      [] name = "sub" -> x - y
      [] name = "mul" -> x * y

\* The work-items of the elementwise kernel from linear id g on, in row-major
\* order.  Each reads A[a_i] and B[b_i] and writes res_g[res_i]; no offset is
\* an argument of the kernel.  rd is the memory the reads see: the memory as
\* it was at the launch (every work-item read before any wrote) when serial
\* is false, the memory as written so far when serial is true.  A write
\* outside the buffer is dropped.
RECURSIVE ElementwiseRun(_, _, _, _, _, _, _, _, _)
ElementwiseRun(name, shape, va, vb, vr, g, b0, b, env) ==
    IF g >= prod(shape) THEN b
    ELSE LET idx == Coords(shape, g, 1)
             rd == IF env.serial THEN b ELSE b0
             x == Rd(rd[va.buffer], KernelAddr(va.strides, idx), env.junk)
             y == Rd(rd[vb.buffer], KernelAddr(vb.strides, idx), env.junk)
             res_i == KernelAddr(vr.strides, idx)
             b1 == IF res_i + 1 \in DOMAIN b[vr.buffer]
                   THEN [b EXCEPT ![vr.buffer][res_i + 1] = ApplyOp(name, x, y)]
                   ELSE b
         IN Only({ElementwiseRun(name, shape, va, vb, vr, g + 1, b0, m, env)
                  : m \in {b1}})

\* binary_op(name, a, b, ret); ret = 0 stands for ret=None
binary_op(name, o, b, x, y, ret, env) ==
    Only({
    IF br.err # "" THEN Res(br.err, br.objs, br.bufs, 0, br.allocs)
    ELSE Only({
       LET o2 == nr.objs
           va == o2[br.a]
           vb == o2[br.b]
           vr == o2[nr.ret]
           global_size == IF va.shape = <<>> THEN <<1>> ELSE va.shape
           \* the kernel takes 3 strides per dimension of a; zip() stops at the
           \* shortest of the three stride tuples
           nargs == 3 * Min(Len(va.strides), Min(Len(vb.strides), Len(vr.strides)))
       IN IF nargs # 3 * Len(va.strides)
          THEN Res("ArgumentError", o2, nr.bufs, 0, br.allocs + nr.allocs)
          ELSE Res("", o2,
                   ElementwiseRun(name, global_size,
                                  [va EXCEPT !.strides = IF va.shape = <<>> THEN <<0>> ELSE @],
                                  [vb EXCEPT !.strides = IF va.shape = <<>> THEN <<0>> ELSE @],
                                  [vr EXCEPT !.strides = IF va.shape = <<>> THEN <<0>> ELSE @],
                                  0, nr.bufs, nr.bufs, env),
                   nr.ret, br.allocs + nr.allocs)
       : nr \in {IF ret = 0
                 THEN NewArray(br.objs, br.bufs, br.objs[br.a].shape, <<>>, env.junk)
                 ELSE Res("", br.objs, br.bufs, ret, 0)}})
    : br \in {broadcast(o, b, x, y, env)}})

(***************************************************************************)
(* matmul_op.                                                              *)
(***************************************************************************)
\* acc += A[A_idx] * B[B_idx] for k in k..K-1
RECURSIVE MatmulAcc(_, _, _, _, _, _, _, _, _, _, _)
MatmulAcc(A, B, M, N, K, ac, bc, m, n, k, junk) ==
    IF k >= K THEN 0
    ELSE LET A_idx == IF ac THEN m * K + k ELSE k * M + m
             B_idx == IF bc THEN k * N + n ELSE n * K + k
         IN Rd(A, A_idx, junk) * Rd(B, B_idx, junk)
            + MatmulAcc(A, B, M, N, K, ac, bc, m, n, k + 1, junk)

matmul_op(o, b, x, y, env) ==
    LET ret_shape == Upto(o[x].shape, Len(o[x].shape) - 1) \o From(o[y].shape, 1)
        nr == NewArray(o, b, ret_shape, <<>>, env.junk)
        M == prod(Upto(o[x].shape, Len(o[x].shape) - 1))
        K == o[x].shape[Len(o[x].shape)]
        N == prod(From(o[y].shape, 1))
        C == [e \in 1..(M * N) |->
                 MatmulAcc(b[o[x].buffer], b[o[y].buffer], M, N, K,
                           o[x].c_contiguous, o[y].c_contiguous,
                           (e - 1) \div N, (e - 1) % N, 0, env.junk)]
    IN IF o[x].shape = <<>> THEN Res("IndexError", o, b, 0, 1)
       ELSE IF ~env.cattr THEN Res("AttributeError", o, b, 0, 1)
       ELSE Res("", nr.objs, [nr.bufs EXCEPT ![Len(b) + 1] = C], nr.ret, 1)

(***************************************************************************)
(* The program: a session with two variables, x (object 1) and y (object   *)
(* 2, once bound).  It constructs x and then runs statements of the form   *)
(*     x, y = v, v.method(...)       with v the array bound last           *)
(* so that after a call that returned a new array the heap holds the       *)
(* receiver and the result; a call that raised binds nothing.              *)
(***************************************************************************)
Junk == {-1, -2}
Env(j, se) == [ndims |-> cls.ndims, cattr |-> cls.cattr, junk |-> j, serial |-> se]
\* the array class: GPUArray as ndarray.py defines it, which has neither
\* ndims nor _c_contiguous, or an array class that provides both
Classes == {[ndims |-> FALSE, cattr |-> FALSE], [ndims |-> TRUE, cattr |-> TRUE]}

BaseShapes == {<<2, 3>>, <<1, 3>>}
\* x[-1], x[3], x[1:], x[:, 1:], x[:, -1]
Keys == {<<IntItem(-1)>>, <<IntItem(3)>>, <<SliceItem(FALSE, 1, TRUE, 0)>>,
         <<SliceItem(TRUE, 0, TRUE, 0), SliceItem(FALSE, 1, TRUE, 0)>>,
         <<SliceItem(TRUE, 0, TRUE, 0), IntItem(-1)>>}
ReshapeTargets == {<<-1>>, <<3, -1>>, <<1, 6>>, <<4>>, <<-1, -1>>}
ShapesOfRank(n) == [1..n -> 1..MaxDim]
ExpandTargets(v) ==
    {t \in ShapesOfRank(ndim(v)) : prod(t) <= MaxSize} \cup {<<2>>}
Perms(n) == {p \in [1..n -> 1..n] : \A i, j \in 1..n : p[i] = p[j] => i = j}
SqueezeAxes == {{1}, {-1}}
ArithOps == {"add"}

\* the buffers some object refers to, renumbered in order; an unreferenced
\* buffer is freed
LiveBufs(o) == {o[i].buffer : i \in DOMAIN o}
NewBufId(o, k) == Cardinality({j \in LiveBufs(o) : j <= k})
CollectObjs(o) == [i \in DOMAIN o |-> [o[i] EXCEPT !.buffer = NewBufId(o, @)]]
CollectBufs(o, b) == Filter(b, LiveBufs(o), 1)

\* the heap after a call on self that returned r: the receiver (as the call
\* left it) and the new object returned; the objects as they were (and as the
\* call left them) when it raised or returned one of them
IsNew(r) == r.err = "" /\ r.ret > Len(objs)
Kept(self, r) ==
    IF IsNew(r) THEN <<r.objs[self], r.objs[r.ret]>>
    ELSE SubSeq(r.objs, 1, Len(objs))

Finish(op, self, arg, r) ==
    /\ gen[self] < MaxDepth
    /\ gen' = IF IsNew(r) THEN <<gen[self], gen[self] + 1>> ELSE gen
    /\ UNCHANGED <<cls, cacheVars, reduceVars>>
    /\ nupd + r.allocs <= MaxLaunches
    /\ nupd' = nupd + r.allocs
    /\ objs' = CollectObjs(Kept(self, r))
    /\ bufs' = CollectBufs(Kept(self, r), r.bufs)
    /\ last' = [op |-> op, self |-> IF IsNew(r) THEN 1 ELSE self, arg |-> arg,
                err |-> r.err,
                ret |-> IF r.err # "" THEN 0 ELSE IF IsNew(r) THEN 2 ELSE r.ret,
                allocs |-> r.allocs]

NoLast == [op |-> "init", self |-> 0, arg |-> <<>>, err |-> "", ret |-> 0,
           allocs |-> 0]

ViewInit ==
    /\ \E shape \in BaseShapes :
          LET r == NewArray(<<>>, <<>>, shape, Arange(prod(shape)), 0)
          IN objs = r.objs /\ bufs = r.bufs
    /\ last = NoLast
    /\ nupd = 0
    /\ gen = <<0>>
    /\ cls \in Classes

GetItem(self, key) ==
    /\ Finish("getitem", self, <<>>, getitem(objs, bufs, self, key))

Reshape(self, shape) ==
    /\ \E j \in Junk :
          Finish("reshape", self, <<>>,
                 reshape(objs, bufs, self, shape, Env(j, TRUE)))

Expand(self, shape) ==
    /\ Finish("expand", self, <<>>, expand(objs, bufs, self, shape))

Permute(self, axes) ==
    /\ Finish("permute", self, <<>>, permute(objs, bufs, self, axes))

Squeeze(self, axisNone, axis) ==
    /\ \E j \in Junk :
          Finish("squeeze", self, <<>>,
                 squeeze(objs, bufs, self, axisNone, axis, Env(j, TRUE)))

\* x.contiguous(), the copy numpy() downloads
Contiguous(self) ==
    /\ \E j \in Junk :
          Finish("contiguous", self, <<>>,
                 contiguous_op(objs, bufs, self, Env(j, TRUE)))

\* a op= b (__iadd__ ...): binary_op(op, a, as_gpu_array(b), ret=a), with b a
\* scalar or a host array of a's shape
InPlace(self, name, full) ==
    /\ \E j \in Junk, se \in BOOLEAN :
          \E nb \in {NewArray(objs, bufs,
                               IF full THEN objs[self].shape ELSE <<>>,
                               [i \in 1..(IF full THEN prod(objs[self].shape) ELSE 1)
                                   |-> Operand], j)} :
             \E r \in {binary_op(name, nb.objs, nb.bufs, self, nb.ret, self,
                                 Env(j, se))} :
                Finish("inplace", self, name, [r EXCEPT !.allocs = @ + 1])

\* a @ b
Matmul(self, other) ==
    /\ \E j \in Junk :
          Finish("matmul", self, [a |-> objs[self].shape, b |-> objs[other].shape],
                 matmul_op(objs, bufs, self, other, Env(j, TRUE)))

\* the parts of the state a specification does not use
NoViews ==
    /\ objs = <<>> /\ bufs = <<>> /\ last = NoLast /\ nupd = 0 /\ gen = <<>>
    /\ cls = [ndims |-> TRUE, cattr |-> TRUE]
NoCache ==
    /\ cache = <<>> /\ compiles = <<>> /\ requested = {} /\ pc = <<>> /\ want = <<>>
NoReduce ==
    /\ rin = <<>> /\ rx = <<>> /\ rname = "" /\ rpasses = 0 /\ rstatus = ""
    /\ rplat = [strict |-> FALSE, kept |-> TRUE]

Init == ViewInit /\ NoCache /\ NoReduce

\* deriving and materializing views, each call made on the array bound last
Next ==
    \/ \E key \in Keys : GetItem(Len(objs), key)
    \/ \E shape \in ReshapeTargets : Reshape(Len(objs), shape)
    \/ \E shape \in ExpandTargets(objs[Len(objs)]) : Expand(Len(objs), shape)
    \/ \E axes \in Perms(ndim(objs[Len(objs)])) : Permute(Len(objs), axes)
    \/ Squeeze(Len(objs), TRUE, {})
    \/ \E axis \in SqueezeAxes : Squeeze(Len(objs), FALSE, axis)
    \/ Contiguous(Len(objs))
Spec == Init /\ [][Next]_vars

\* indexing, permuting and arithmetic
NextArith ==
    \/ \E key \in Keys : GetItem(Len(objs), key)
    \/ \E axes \in Perms(ndim(objs[Len(objs)])) : Permute(Len(objs), axes)
    \/ \E name \in ArithOps, full \in BOOLEAN : InPlace(Len(objs), name, full)
    \/ \E other \in DOMAIN objs : Matmul(Len(objs), other)
SpecArith == Init /\ [][NextArith]_vars

(***************************************************************************)
(* broadcast(a, b) on two constructed arrays.                              *)
(***************************************************************************)
BroadcastShapes == {<<3>>, <<1>>, <<4, 1>>, <<3, 2>>, <<4, 2>>, <<2, 3>>,
                    <<3, 1, 1>>, <<1, 3, 3>>}

BroadcastInit ==
    /\ \E sa \in BroadcastShapes, sb \in BroadcastShapes :
          LET ra == NewArray(<<>>, <<>>, sa, Arange(prod(sa)), 0)
              rb == NewArray(ra.objs, ra.bufs, sb, Arange(prod(sb)), 0)
          IN objs = rb.objs /\ bufs = rb.bufs
    /\ last = NoLast
    /\ nupd = 0
    /\ gen = <<0, 0>>
    /\ cls \in Classes

\* a2, b2 = broadcast(x, y); arg names the two views returned
Broadcast ==
    /\ last.op = "init"
    /\ \E j \in Junk :
          \E r \in {broadcast(objs, bufs, 1, 2, Env(j, TRUE))} :
             /\ objs' = r.objs
             /\ bufs' = r.bufs
             /\ last' = [op |-> "broadcast", self |-> 1, arg |-> <<r.a, r.b>>,
                         err |-> r.err, ret |-> 0, allocs |-> r.allocs]
    /\ UNCHANGED <<nupd, gen, cls, cacheVars, reduceVars>>

InitBroadcast == BroadcastInit /\ NoCache /\ NoReduce
NextBroadcast == Broadcast
SpecBroadcast == InitBroadcast /\ [][NextBroadcast]_vars

(***************************************************************************)
(* reduce_op on a 1-D C-contiguous array (axis 0), one action per pass of  *)
(* the recursion.  What the code leaves to the OpenCL platform is rplat:    *)
(* strict, whether a global size that is no multiple of the local size is  *)
(* rejected (CL_INVALID_WORK_GROUP_SIZE) or run with a smaller last group, *)
(* and kept, whether local memory beyond the bytes allocated (line 202)    *)
(* keeps what was written to it or reads as junk.                          *)
(***************************************************************************)
group_size == 16
itemsize == 4
MaxLen == 65
ReduceNames == {"sum", "max"}

ReduceOp(name, a, b) == IF name = "sum" THEN a + b ELSE Max(a, b)

\* op over the elements of a non-empty sequence, left to right
RECURSIVE LinearReduce(_, _)
LinearReduce(name, s) ==
    IF Len(s) = 1 THEN s[1]
    ELSE ReduceOp(name, LinearReduce(name, SubSeq(s, 1, Len(s) - 1)), s[Len(s)])

\* a read of local cell c (0-based) of B, of which cells floats are allocated
RdLocal(B, c, cells, kept, junk) ==
    IF (c < cells \/ kept) /\ c + 1 \in DOMAIN B THEN B[c + 1] ELSE junk

\* the rounds of lines 192-199 from stride on, for a group of sz work-items
RECURSIVE TreeRounds(_, _, _, _, _, _, _)
TreeRounds(name, B, sz, stride, cells, kept, junk) ==
    IF stride <= 0 THEN B
    ELSE TreeRounds(name,
             [c \in 1..sz |->
                 IF c - 1 < stride
                 THEN ReduceOp(name, RdLocal(B, c - 1, cells, kept, junk),
                               RdLocal(B, c - 1 + stride, cells, kept, junk))
                 ELSE B[c]],
             sz, stride \div 2, cells, kept, junk)

\* B[0] of work-group g after its rounds; the group holds sz work-items,
\* get_local_size gives sz
GroupResult(name, A, g, cells, kept, junk) ==
    LET sz == Min(group_size, Len(A) - group_size * g)
        B == [c \in 1..sz |-> A[group_size * g + c]]
    IN RdLocal(TreeRounds(name, B, sz, sz \div 2, cells, kept, junk),
               0, cells, kept, junk)

\* one launch of the kernel on A: the buffer of ret, of ret_size elements;
\* a group whose id is outside ret writes outside the buffer (dropped)
ReducePassResult(name, A, kept, junk) ==
    LET length == Len(A)
        n_groups == length \div group_size
        ret_size == IF n_groups <= 1 THEN 1 ELSE length \div group_size
        local_mem_size == (itemsize * length) \div group_size
        cells == local_mem_size \div itemsize
        ngroups == (length + group_size - 1) \div group_size
    IN [e \in 1..ret_size |->
           IF e <= ngroups THEN GroupResult(name, A, e - 1, cells, kept, junk)
           ELSE junk]

ReduceInit ==
    /\ \E n \in 1..MaxLen : rin = Arange(n)
    /\ rx = rin
    /\ rname \in ReduceNames
    /\ rpasses = 0
    /\ rstatus = "run"
    /\ rplat \in [strict : BOOLEAN, kept : BOOLEAN]

\* reduce_op(name, x): one launch, then the recursion on its result when
\* n_groups > 1
ReducePass ==
    /\ rstatus = "run"
    /\ \E j \in Junk :
          IF rplat.strict /\ Len(rx) % group_size # 0
          THEN /\ rstatus' = "CL_INVALID_WORK_GROUP_SIZE"
               /\ UNCHANGED <<rx, rpasses>>
          ELSE /\ rx' = ReducePassResult(rname, rx, rplat.kept, j)
               /\ rpasses' = rpasses + 1
               /\ rstatus' = IF Len(rx) \div group_size > 1 THEN "run" ELSE "done"
    /\ UNCHANGED <<rin, rname, rplat, viewVars, cacheVars>>

InitReduce == ReduceInit /\ NoViews /\ NoCache
NextReduce == ReducePass
SpecReduce == InitReduce /\ [][NextReduce]_vars

(***************************************************************************)
(* cl_build: the kernel cache, functools.lru_cache with its default        *)
(* maxsize.  A key stands for a pair (name, program).  cache lists the     *)
(* keys stored, least recently used first.  A call looks its key up; on a  *)
(* hit it returns at once; on a miss it runs the wrapped function (the     *)
(* compile, during which other threads run) and then stores the result,    *)
(* unless the key was stored meanwhile, evicting the least recently used   *)
(* entry when the cache is full.                                           *)
(***************************************************************************)
LruMaxSize == 128
\* distinct keys of a session, and threads and keys of the concurrent callers
NumKeys == 130
NumThreads == 2
ThreadKeys == 2
\* the keys a session asks for again after their first request
HotKeys == {1}

InCache(c, k) == \E i \in DOMAIN c : c[i] = k

\* a hit makes the entry the most recently used
LruHit(c, k) ==
    LET i == CHOOSE n \in DOMAIN c : c[n] = k
    IN Append(SubSeq(c, 1, i - 1) \o SubSeq(c, i + 1, Len(c)), k)

\* a mutant of LruStore: the cache evicts one entry early
LruStoreEarly(c, k) ==
    IF InCache(c, k) THEN c
    ELSE IF Len(c) >= LruMaxSize - 1 THEN Append(Tail(c), k)
    ELSE Append(c, k)

\* the store after the wrapped function returned
LruStore(c, k) ==
    IF InCache(c, k) THEN c
    ELSE IF Len(c) >= LruMaxSize THEN Append(Tail(c), k)
    ELSE Append(c, k)

CacheInit(threads, keys) ==
    /\ cache = <<>>
    /\ compiles = [k \in keys |-> 0]
    /\ requested = {}
    /\ pc = [t \in threads |-> "idle"]
    /\ want = [t \in threads |-> 0]

\* cl_build(name, program) by thread t, key in the cache
Hit(t, k) ==
    /\ pc[t] = "idle"
    /\ InCache(cache, k)
    /\ cache' = LruHit(cache, k)
    /\ requested' = requested \cup {k}
    /\ UNCHANGED <<compiles, pc, want, viewVars, reduceVars>>

\* cl_build(name, program) by thread t, key not in the cache
Miss(t, k) ==
    /\ pc[t] = "idle"
    /\ ~InCache(cache, k)
    /\ pc' = [pc EXCEPT ![t] = "compile"]
    /\ want' = [want EXCEPT ![t] = k]
    /\ requested' = requested \cup {k}
    /\ UNCHANGED <<cache, compiles, viewVars, reduceVars>>

\* cl.Program(cl_ctx, program).build()
Compile(t) ==
    /\ pc[t] = "compile"
    /\ compiles' = [compiles EXCEPT ![want[t]] = @ + 1]
    /\ pc' = [pc EXCEPT ![t] = "store"]
    /\ UNCHANGED <<cache, requested, want, viewVars, reduceVars>>

Store(t) ==
    /\ pc[t] = "store"
    /\ cache' = LruStore(cache, want[t])
    /\ pc' = [pc EXCEPT ![t] = "idle"]
    /\ want' = [want EXCEPT ![t] = 0]
    /\ UNCHANGED <<compiles, requested, viewVars, reduceVars>>

\* one caller: it asks for keys it has not asked for yet, in order, and for
\* the hot keys again
SessionKeys ==
    ({Cardinality(requested) + 1} \cap (1..NumKeys)) \cup (HotKeys \cap requested)

InitCache == CacheInit({1}, 1..NumKeys) /\ NoViews /\ NoReduce
NextCache ==
    \/ \E k \in SessionKeys : Hit(1, k)
    \/ \E k \in SessionKeys : Miss(1, k)
    \/ Compile(1)
    \/ Store(1)
SpecCache == InitCache /\ [][NextCache]_vars

\* several threads, each calling cl_build for any key at any time
InitThreads == CacheInit(1..NumThreads, 1..ThreadKeys) /\ NoViews /\ NoReduce
NextThreads ==
    \/ \E t \in 1..NumThreads, k \in 1..ThreadKeys : Hit(t, k)
    \/ \E t \in 1..NumThreads, k \in 1..ThreadKeys : Miss(t, k)
    \/ \E t \in 1..NumThreads : Compile(t)
    \/ \E t \in 1..NumThreads : Store(t)
SpecThreads == InitThreads /\ [][NextThreads]_vars

(***************************************************************************)
(* Properties of the views and kernels.                                    *)
(***************************************************************************)
\* the buffer element a view addresses at the coordinates idx
ViewAddr(v, idx) == v.offset + KernelAddr(v.strides, idx)
\* the linear ids of a view's logical elements, row-major
Linear(v) == 0..(prod(v.shape) - 1)

\* C1: a materialization that returned holds, at every destination linear id
\* k with coordinates c, the source buffer element at offset + sum c_i *
\* strides[i] of the view it was made from.
C1_MaterializeGathersView ==
    (last.op = "contiguous" /\ last.err = "") =>
        LET x == objs[last.self]
            r == objs[last.ret]
        IN \A k \in Linear(x) :
              LET e == ViewAddr(x, Coords(x.shape, k, 1))
              IN /\ e + 1 \in DOMAIN bufs[x.buffer]
                 /\ bufs[r.buffer][k + 1] = bufs[x.buffer][e + 1]

\* C3: an expand that returned a view changed only dimensions of size 1:
\* every dimension of the receiver equals the target's or is 1.
C3_ExpandOnlySizeOne ==
    (last.op = "expand" /\ last.err = "") =>
        \A i \in DOMAIN objs[last.self].shape :
            \/ objs[last.self].shape[i] = objs[last.ret].shape[i]
            \/ objs[last.self].shape[i] = 1

\* C5: an in-place update a op= b leaves, at every buffer element that a
\* addresses, op(old value, b's value).
C5_InPlaceUpdatesAddressed ==
    [][(last'.op = "inplace" /\ last'.err = "") =>
          LET a == objs[last'.self]
          IN \A k \in Linear(a) :
                LET e == ViewAddr(a, Coords(a.shape, k, 1))
                IN /\ e + 1 \in DOMAIN bufs[a.buffer]
                   /\ bufs'[a.buffer][e + 1]
                        = ApplyOp(last'.arg, bufs[a.buffer][e + 1], Operand)]_vars

\* C8: a matmul whose contraction lengths differ raises before it allocated
\* a result buffer.
C8_MatmulMismatchRaisesFirst ==
    (/\ last.op = "matmul"
     /\ last.arg.a # <<>> /\ last.arg.b # <<>>
     /\ last.arg.a[Len(last.arg.a)] # last.arg.b[1])
    => (last.err # "" /\ last.allocs = 0)

\* C9: a squeeze that removed nothing (the result has the receiver's shape)
\* returned the receiver's view: same buffer, strides, offset and flags.
C9_SqueezeNoopSameView ==
    (/\ last.op = "squeeze" /\ last.err = ""
     /\ objs[last.ret].shape = objs[last.self].shape)
    => objs[last.ret] = objs[last.self]

\* C10: a transform (index/slice, reshape, permute, expand, squeeze), whether
\* it returns or raises, leaves the receiver's shape, strides, offset, flags
\* and buffer as they were, and the view it returns shares the receiver's
\* buffer unless a buffer was allocated for it (reshape materialized).
TransformOps == {"getitem", "reshape", "permute", "expand", "squeeze"}
SameDescriptor(v, w) ==
    /\ v.shape = w.shape /\ v.strides = w.strides /\ v.offset = w.offset
    /\ v.c_contiguous = w.c_contiguous /\ v.f_contiguous = w.f_contiguous
C10_TransformLeavesParent ==
    [][last'.op \in TransformOps =>
          LET before == objs[Len(objs)]
              after == objs'[last'.self]
          IN /\ SameDescriptor(before, after)
             /\ bufs'[after.buffer] = bufs[before.buffer]
             /\ (last'.err # "" => Len(objs') = Len(objs))
             /\ (last'.err = "" /\ last'.allocs = 0) =>
                   objs'[last'.ret].buffer = after.buffer]_vars
C10_Witness ==
    /\ last.op = "getitem" /\ last.err = ""
    /\ last.self = 1 /\ last.ret = 2
    /\ objs[2].offset > 0 /\ objs[2].shape # objs[1].shape
    /\ objs[2].buffer = objs[1].buffer

\* C2: broadcast right-aligns the shapes and then succeeds exactly when every
\* aligned pair is equal or has a side equal to 1, and both views returned
\* then have the elementwise-maximum shape.
RightAligned(sa, sb) == PadLeft(sa, Max(Len(sa), Len(sb)) - Len(sa))
Compatible(sa, sb) ==
    \A i \in 1..Max(Len(sa), Len(sb)) :
        LET p == RightAligned(sa, sb)[i]
            q == RightAligned(sb, sa)[i]
        IN p = q \/ p = 1 \/ q = 1
MaxShape(sa, sb) ==
    [i \in 1..Max(Len(sa), Len(sb)) |->
        Max(RightAligned(sa, sb)[i], RightAligned(sb, sa)[i])]
C2_BroadcastRightAligned ==
    last.op = "broadcast" =>
        LET sa == objs[1].shape
            sb == objs[2].shape
        IN /\ (last.err = "") <=> Compatible(sa, sb)
           /\ last.err = "" =>
                 /\ objs[last.arg[1]].shape = MaxShape(sa, sb)
                 /\ objs[last.arg[2]].shape = MaxShape(sa, sb)

\* C4: reduce_op on a 1-D input of any length L >= 1 returns the sum / the
\* maximum of all L elements, as a linear reduction gives it (stated for the
\* platform kindest to the code: partial groups run, local memory keeps what
\* is written).
C4_ReduceMatchesLinear ==
    (rstatus = "done" /\ ~rplat.strict /\ rplat.kept)
    => (Len(rx) = 1 /\ rx[1] = LinearReduce(rname, rin))

(***************************************************************************)
(* Properties of the kernel cache.                                         *)
(***************************************************************************)
\* the calls of cl_build for k that are past their lookup and not yet stored
Pending(k) == {t \in DOMAIN pc : pc[t] # "idle" /\ want[t] = k}

\* C6 as claimed: whatever the number of distinct keys, every key is compiled
\* at most once and an entry, once stored, stays in the cache.
C6_NeverEvicted ==
    \A k \in DOMAIN compiles :
        /\ compiles[k] <= 1
        /\ (compiles[k] >= 1 /\ Pending(k) = {}) => InCache(cache, k)

\* C6 as the code has it: while no more than LruMaxSize distinct keys have
\* been requested, every key is compiled at most once and an entry, once
\* stored, stays in the cache.
C6_NeverEvictedWithinMaxSize ==
    Cardinality(requested) <= LruMaxSize =>
        \A k \in DOMAIN compiles :
            /\ compiles[k] <= 1
            /\ (compiles[k] >= 1 /\ Pending(k) = {}) => InCache(cache, k)
\* the cache is full and the first key was just asked for again: a hit
C6_Witness ==
    /\ Cardinality(requested) = LruMaxSize
    /\ Len(cache) = LruMaxSize
    /\ pc[1] = "idle"
    /\ cache[Len(cache)] = 1
    /\ compiles[1] = 1

\* C7: of the threads that ask at once for a key not in the cache, one
\* compiles it and the others wait: a key is never compiled twice, nor by
\* two threads at a time.
C7_ConcurrentMissesCoalesced ==
    \A k \in DOMAIN compiles :
        compiles[k] + Cardinality({t \in Pending(k) : pc[t] = "compile"}) <= 1

(***************************************************************************)
(* Invariants of the views.                                                *)
(***************************************************************************)
\* the largest buffer element a view with elements addresses
MaxAddr(v) ==
    v.offset + SumSeq([i \in 1..Len(v.strides) |-> (v.shape[i] - 1) * v.strides[i]])

\* C11: every view reached from a constructed array by index/slice, reshape,
\* permute, expand and squeeze has as many strides as dimensions, and its
\* largest address offset + sum (shape[i]-1) * strides[i] lies inside its
\* buffer.
C11_ViewsInBounds ==
    \A n \in DOMAIN objs :
        /\ Len(objs[n].shape) = Len(objs[n].strides)
        /\ MaxAddr(objs[n]) < Len(bufs[objs[n].buffer])

\* C12: in every view reached, c_contiguous is set only if the strides of the
\* dimensions of size # 1 are the row-major ones, and f_contiguous only if
\* they are the column-major ones.
C12_FlagsSound ==
    \A n \in DOMAIN objs :
        LET v == objs[n]
            big == {i \in DOMAIN v.shape : v.shape[i] # 1}
        IN /\ v.c_contiguous =>
                 \A i \in big : v.strides[i] = CStrides(v.shape)[i]
           /\ v.f_contiguous =>
                 \A i \in big : v.strides[i] = FStrides(v.shape)[i]

====
